---- MODULE Spec2Model ----
(***************************************************************************)
(* LaunchpadLedger (launchpadledger.js): the device session of the         *)
(* Persistence Ledger signer.  Every async function of the class is one    *)
(* kind of stack frame; a frame runs from one await to the next.  The      *)
(* vendor client (ledger-cosmos-js) is the environment: it answers each    *)
(* request with any response of the request's shape.                       *)
(***************************************************************************)
EXTENDS Integers, Sequences, FiniteSets, TLC

\* TLC keeps the fields of a record in the order in which their names first
\* occur in the module.  Every record below lists its fields in this order,
\* so that no worker of TLC ever has to reorder a record another one reads.
RecordFields ==
  [ appName |-> TRUE, args |-> TRUE, bech32_address |-> TRUE, compressed_pk |-> TRUE,
    device_locked |-> TRUE, error |-> TRUE, error_message |-> TRUE, ev |-> TRUE,
    fn |-> TRUE, hdPath |-> TRUE, hdPaths |-> TRUE, i |-> TRUE, kind |-> TRUE,
    major |-> TRUE, message |-> TRUE, minor |-> TRUE, name |-> TRUE, ok |-> TRUE, outdated |-> TRUE,
    patch |-> TRUE, payload |-> TRUE, pc |-> TRUE, prefix |-> TRUE, pubkey |-> TRUE,
    pubkeys |-> TRUE, rejected |-> TRUE, rejection |-> TRUE, response |-> TRUE, signature |-> TRUE,
    testModeAllowed |-> TRUE, test_mode |-> TRUE, v |-> TRUE, val |-> TRUE ]

VARIABLES
  testModeAllowed,  \* this.testModeAllowed
  hdPaths,          \* this.hdPaths
  prefix,           \* this.prefix
  stack,            \* per caller: the chain of suspended async functions
  ret,              \* per caller: completion handed to the awaiting frame,
                    \*   and, with the stack empty, the outcome of the call
  pending,          \* per caller: the device request awaiting its response
  log,              \* per caller: history of the current call
  succeeded,        \* history: some earlier call of the session has succeeded
  input,            \* the arguments a pure function of the session is applied to
  output            \* what it yields on them

session == <<testModeAllowed, hdPaths, prefix>>
application == <<input, output>>
vars == <<testModeAllowed, hdPaths, prefix, stack, ret, pending, log, succeeded, input, output>>

-----------------------------------------------------------------------------
(* Bounds of the model *)

MaxPaths == 2          \* longest configured path list
NumCallers == 2        \* call slots (one is used when calls are awaited)
MaxSegments == 2       \* longest path unharden is applied to on its own

Callers == 1 .. NumCallers

-----------------------------------------------------------------------------
(* Optional values: <<>> is undefined, <<v>> is the value v *)

Undefined == << >>
Some(v) == <<v>>
IsDefined(o) == o # << >>
\* a ?? b
Coalesce(o, d) == IF IsDefined(o) THEN o[1] ELSE d

-----------------------------------------------------------------------------
(* HD paths: sequences of Slip10RawIndex values (uint32).  TLC's integers  *)
(* end at 2^31 - 1, so a number n is kept as <<hi, lo>> with               *)
(* n = hi * 2^31 + lo and 0 <= lo < 2^31.                                  *)

Num(hi, lo) == <<hi, lo>>
\* n - 2 ** 31
MinusTwoTo31(n) == Num(n[1] - 1, n[2])
\* n >= 2 ** 31
AtLeastTwoTo31(n) == n[1] >= 1

\* Slip10RawIndex.hardened(i), Slip10RawIndex.normal(i)
hardened(i) == Num(1, i)
normal(i) == Num(0, i)
isHardened(n) == AtLeastTwoTo31(n)
toNumber(n) == n

\* stringToPath("m/44'/" + coinType + "'/" + accountNumber + "'/0/" + addressIndex)
makeHdPath(accountNumber, addressIndex, coinType) ==
  << hardened(44), hardened(coinType), hardened(accountNumber), normal(0), normal(addressIndex) >>

DefaultAccountNumber == 0
DefaultAddressIndex == 0
DefaultCoinType == 750

\* mutant: 2 ** 31 is taken off every segment
unharden_Every(hdPath) ==
  [i \in DOMAIN hdPath |-> MinusTwoTo31(toNumber(hdPath[i]))]

unharden(hdPath) ==
  [i \in DOMAIN hdPath |->
     IF isHardened(hdPath[i]) THEN MinusTwoTo31(toNumber(hdPath[i])) ELSE toNumber(hdPath[i])]

persistenceHdPath == makeHdPath(DefaultAccountNumber, DefaultAddressIndex, DefaultCoinType)
persistenceBech32Prefix == "persistence"
requiredPersistenceAppVersion == "1.0.0"

-----------------------------------------------------------------------------
(* Strings the session compares or builds *)

NoErrors == "No errors"
\* mutant: the default rejection message is the one of sign
GenericRejection_Signing == "Transaction signing request was rejected by the user"

GenericRejection == "Request was rejected by the user"
SigningRejection == "Transaction signing request was rejected by the user"
\* the source spells the apostrophe of this message U+2019
ScreensaverMessage == "Ledger's screensaver mode is on"
TimeoutMessage == "Connection timed out. Please try again."
AppNotOpenMessage == "Persistence app is not open"
CommandNotAllowedMessage == "Transaction rejected"
NotUpToDateMessage ==
  "Your Persistence Ledger App is not up to date. Please update to version "
    \o requiredPersistenceAppVersion \o "."
NativeErrorMessage(errorMessage) == "Ledger Native Error: " \o errorMessage
TestModeMessage ==
  "DANGER: The Persistence Ledger app is in test mode and should not be used on mainnet!"
OutdatedMessage ==
  "Outdated version: Please update Persistence Ledger App to the latest version."
OpenAppMessage == "Please open the Persistence Ledger app on your Ledger device."
CloseAppMessage(appName) ==
  "Please close " \o appName \o " and open the Persistence Ledger app on your Ledger device."
\* unharden(undefined): undefined has no map
TypeErrorMessage == "TypeError: Cannot read properties of undefined (reading 'map')"
InvalidUtf8Message == "TypeError: The encoded data was not valid."
ChainId == "persistence"

-----------------------------------------------------------------------------
(* What the device may answer *)

\* error texts of the translation table, and texts it does not list
TableTexts ==
  { "U2F: Timeout", "Persistence app does not seem to be open", "Command not allowed",
    "Transaction rejected", "Unknown Status Code: 26628", "Instruction not supported" }
UnknownTexts == { "Sign/verify error", "" }
ErrorTexts == TableTexts \cup UnknownTexts \cup { NoErrors }

\* error_message and device_locked are optional fields of every response
Envelopes ==
  [ device_locked : { Undefined, Some(FALSE), Some(TRUE) },
    error_message : { Undefined } \cup { Some(t) : t \in ErrorTexts } ]
\* the locked flag is set, or the error text is not "No errors"
CarriesError(response) ==
  \/ Coalesce(response.device_locked, FALSE)
  \/ Coalesce(response.error_message, NoErrors) # NoErrors
CleanEnvelopes == { e \in Envelopes : ~ CarriesError(e) }
ErrorEnvelopes == Envelopes \ CleanEnvelopes

AppNames ==
  { "Persistence", "persistence", "PERSISTENCE", "Dashboard", "DASHBOARD", "dashboard",
    "SomeOtherApp" }
Versions ==
  { <<0, 0, 0>>, <<0, 0, 1>>, <<0, 1, 0>>, <<0, 9, 9>>,
    <<1, 0, 0>>, <<1, 0, 1>>, <<1, 2, 0>>, <<2, 0, 0>> }
PublicKeys == { <<2, 17>>, <<3, 250>> }
DerSignatures == { <<48, 6>>, <<48, 68>> }

\* A response carrying an error is modelled with one payload (two versions
\* and both test-mode flags for getVersion): the session reads no payload
\* field of such a response.
AppInfoResponses ==
  { [ appName |-> n, device_locked |-> e.device_locked, error_message |-> e.error_message ] :
      e \in CleanEnvelopes, n \in AppNames }
  \cup
  { [ appName |-> "Persistence", device_locked |-> e.device_locked,
      error_message |-> e.error_message ] : e \in ErrorEnvelopes }

VersionResponses ==
  { [ device_locked |-> e.device_locked, error_message |-> e.error_message,
      major |-> n[1], minor |-> n[2], patch |-> n[3], test_mode |-> t ] :
      e \in CleanEnvelopes, n \in Versions, t \in BOOLEAN }
  \cup
  { [ device_locked |-> e.device_locked, error_message |-> e.error_message,
      major |-> n[1], minor |-> n[2], patch |-> n[3], test_mode |-> t ] :
      e \in ErrorEnvelopes, n \in { <<0, 9, 9>>, <<1, 0, 0>> }, t \in BOOLEAN }

PublicKeyResponses ==
  { [ compressed_pk |-> k, device_locked |-> e.device_locked,
      error_message |-> e.error_message ] : e \in Envelopes, k \in PublicKeys }

SignResponses ==
  { [ device_locked |-> e.device_locked, error_message |-> e.error_message,
      signature |-> d ] : e \in Envelopes, d \in DerSignatures }

AddressResponses ==
  { [ bech32_address |-> "persistence1qq", compressed_pk |-> k,
      device_locked |-> e.device_locked, error_message |-> e.error_message ] :
      e \in Envelopes, k \in PublicKeys }

-----------------------------------------------------------------------------
(* Pure functions of the session *)

\* mutant: the error text is matched before the locked flag is looked at
handleLedgerErrors_TextFirst(response, rejection) ==
  LET errorMessage == Coalesce(response.error_message, NoErrors)
      deviceLocked == Coalesce(response.device_locked, FALSE)
      rejectionMessage == Coalesce(rejection, GenericRejection)
  IN CASE errorMessage = "U2F: Timeout" -> Some(TimeoutMessage)
       [] errorMessage = "Persistence app does not seem to be open" -> Some(AppNotOpenMessage)
       [] errorMessage = "Command not allowed" -> Some(CommandNotAllowedMessage)
       [] errorMessage = "Transaction rejected" -> Some(rejectionMessage)
       [] errorMessage = "Unknown Status Code: 26628" -> Some(ScreensaverMessage)
       [] errorMessage = "Instruction not supported" -> Some(NotUpToDateMessage)
       [] errorMessage = "No errors" ->
            IF deviceLocked THEN Some(ScreensaverMessage) ELSE Undefined
       [] OTHER -> Some(NativeErrorMessage(errorMessage))

\* mutant: the cases of "Command not allowed" and "Transaction rejected"
\* have changed places
handleLedgerErrors_Swapped(response, rejection) ==
  LET errorMessage == Coalesce(response.error_message, NoErrors)
      deviceLocked == Coalesce(response.device_locked, FALSE)
      rejectionMessage == Coalesce(rejection, GenericRejection)
  IN IF deviceLocked THEN Some(ScreensaverMessage)
     ELSE CASE errorMessage = "U2F: Timeout" -> Some(TimeoutMessage)
            [] errorMessage = "Persistence app does not seem to be open" -> Some(AppNotOpenMessage)
            [] errorMessage = "Command not allowed" -> Some(rejectionMessage)
            [] errorMessage = "Transaction rejected" -> Some(CommandNotAllowedMessage)
            [] errorMessage = "Unknown Status Code: 26628" -> Some(ScreensaverMessage)
            [] errorMessage = "Instruction not supported" -> Some(NotUpToDateMessage)
            [] errorMessage = "No errors" -> Undefined
            [] OTHER -> Some(NativeErrorMessage(errorMessage))

\* handleLedgerErrors: Undefined when it returns, Some(message) when it throws
handleLedgerErrors(response, rejection) ==
  LET errorMessage == Coalesce(response.error_message, NoErrors)
      deviceLocked == Coalesce(response.device_locked, FALSE)
      rejectionMessage == Coalesce(rejection, GenericRejection)
  IN IF deviceLocked THEN Some(ScreensaverMessage)
     ELSE CASE errorMessage = "U2F: Timeout" -> Some(TimeoutMessage)
            [] errorMessage = "Persistence app does not seem to be open" -> Some(AppNotOpenMessage)
            [] errorMessage = "Command not allowed" -> Some(CommandNotAllowedMessage)
            [] errorMessage = "Transaction rejected" -> Some(rejectionMessage)
            [] errorMessage = "Unknown Status Code: 26628" -> Some(ScreensaverMessage)
            [] errorMessage = "Instruction not supported" -> Some(NotUpToDateMessage)
            [] errorMessage = "No errors" -> Undefined
            [] OTHER -> Some(NativeErrorMessage(errorMessage))

\* mutant: the negation of the policy flag is lost
verifyAppMode_Inverted(testMode) ==
  IF testMode /\ testModeAllowed THEN Some(TestModeMessage) ELSE Undefined

\* verifyAppMode: Undefined when it returns, Some(message) when it throws
verifyAppMode(testMode) ==
  IF testMode /\ ~ testModeAllowed THEN Some(TestModeMessage) ELSE Undefined

\* `${major}.${minor}.${patch}`
VersionString(major, minor, patch) ==
  ToString(major) \o "." \o ToString(minor) \o "." \o ToString(patch)

\* semver: the version a string of the form major.minor.patch denotes
SemverPartMax == 9
SemverParse(version) ==
  CHOOSE t \in (0 .. SemverPartMax) \X (0 .. SemverPartMax) \X (0 .. SemverPartMax) :
    VersionString(t[1], t[2], t[3]) = version

\* semver.compare: major, then minor, then patch
SemverCompare(a, b) ==
  LET x == SemverParse(a)
      y == SemverParse(b)
  IN IF x[1] # y[1] THEN (IF x[1] < y[1] THEN -1 ELSE 1)
     ELSE IF x[2] # y[2] THEN (IF x[2] < y[2] THEN -1 ELSE 1)
     ELSE IF x[3] # y[3] THEN (IF x[3] < y[3] THEN -1 ELSE 1)
     ELSE 0

\* mutant: semver.gt in the place of semver.gte
SemverGt(a, b) == SemverCompare(a, b) > 0

SemverGte(a, b) == SemverCompare(a, b) >= 0

\* mutant: the name is compared as the device reports it
toLowerCase_Identity(s) == s

\* String.prototype.toLowerCase on the names the device reports
toLowerCase(s) ==
  CASE s \in { "Persistence", "persistence", "PERSISTENCE" } -> "persistence"
    [] s \in { "Dashboard", "DASHBOARD", "dashboard" } -> "dashboard"
    [] s = "SomeOtherApp" -> "someotherapp"

\* Uint8Array.from(bytes)
Uint8ArrayFrom(bytes) == [i \in DOMAIN bytes |-> bytes[i] % 256]

\* fromUtf8 (fatal decoder): Undefined for bytes that are no UTF-8 text;
\* the messages of the model are ASCII or hold the byte 255
fromUtf8(message) ==
  IF \A i \in DOMAIN message : message[i] < 128 THEN Some(<<"text", message>>) ELSE Undefined

\* Secp256k1Signature.fromDer(signature).toFixedLength()
fromDerToFixedLength(signature) == <<"fixed", signature>>

\* LedgerApp.getBech32FromPK(prefix, Buffer.from(pubkey))
getBech32FromPK(pfx, pubkey) == <<"bech32", pfx, pubkey>>

-----------------------------------------------------------------------------
(* Call frames.  A frame is [fn, pc, v]: the async function, where it is   *)
(* suspended, and its arguments and locals.  An await suspends the frame;  *)
(* it resumes on the completion left in ret.                               *)

\* what a function that ends without a return statement completes with;
\* as the names, versions and messages its callers are resumed with, a string
Void == "undefined"

NoCompletion == [kind |-> "none"]
Returned(v) == [kind |-> "return", val |-> v]
Thrown(e) == [kind |-> "throw", val |-> e]

Frame(name, locals) == [fn |-> name, pc |-> "start", v |-> locals]
NoLocals == << >>

Top(c) == stack[c][Len(stack[c])]
At(c, fn, pc) == Len(stack[c]) > 0 /\ Top(c).fn = fn /\ Top(c).pc = pc
\* the frame's await has completed
Resumed(c, fn, pc) == At(c, fn, pc) /\ ret[c].kind # "none"

SetTop(s, frame) == [s EXCEPT ![Len(s)] = frame]
Pop(s) == SubSeq(s, 1, Len(s) - 1)

Enter(fn) == [ev |-> "enter", fn |-> fn]
Exit(fn, ok) == [ev |-> "exit", fn |-> fn, ok |-> ok]
Sent(request) == [args |-> request.args, ev |-> "send", name |-> request.name]
\* the version the session requires, and the precedence of versions: major
\* first, then minor, then patch
RequiredVersion == <<1, 0, 0>>

VersionLess(a, b) ==
  \/ a[1] < b[1]
  \/ a[1] = b[1] /\ a[2] < b[2]
  \/ a[1] = b[1] /\ a[2] = b[2] /\ a[3] < b[3]

\* the history keeps of a response whether it carries an error, the
\* test-mode flag of a version response and whether its version precedes
\* the required one, the key of a public-key response without error, an
\* address response without error as a whole, and whether the response is
\* a plain rejection (not locked, error text "Transaction rejected")
Received(name, response) ==
  [error |-> CarriesError(response), ev |-> "recv", name |-> name,
   outdated |-> IF name = "getVersion"
                  THEN VersionLess(<<response.major, response.minor, response.patch>>,
                                   RequiredVersion)
                  ELSE FALSE,
   payload |-> IF name = "getVersion" THEN Some(response.test_mode)
               ELSE IF name = "publicKey" /\ ~ CarriesError(response)
                      THEN Some(response.compressed_pk)
               ELSE IF name = "showAddressAndPubKey" /\ ~ CarriesError(response)
                      THEN Some(response)
               ELSE Undefined,
   rejected |-> /\ response.device_locked # Some(TRUE)
                /\ response.error_message = Some("Transaction rejected")]

\* one step of caller c: its new stack, completion, outstanding request, and
\* what the step adds to the history; the session's fields never change
Step(c, s, r, p, events) ==
  /\ stack' = [stack EXCEPT ![c] = s]
  /\ ret' = [ret EXCEPT ![c] = r]
  /\ pending' = [pending EXCEPT ![c] = p]
  /\ log' = [log EXCEPT ![c] = @ \o events]
  /\ succeeded' = (succeeded \/ (Len(s) = 0 /\ r.kind = "return"))
  /\ UNCHANGED <<session, application>>

\* await callee(...): the frame moves to pc and the callee starts
Await(c, pc, callee) ==
  Step(c, SetTop(stack[c], [Top(c) EXCEPT !.pc = pc]) \o <<callee>>, NoCompletion,
       Undefined, <<Enter(callee.fn)>>)

\* await this.app.<name>(args): the frame moves to pc and the request goes out
Request(c, pc, request) ==
  Step(c, SetTop(stack[c], [Top(c) EXCEPT !.pc = pc]), NoCompletion,
       Some(request), <<Sent(request)>>)

\* the frame stays in its function and moves to pc with new locals
Goto(c, pc, v) ==
  Step(c, SetTop(stack[c], [Top(c) EXCEPT !.pc = pc, !.v = v]), NoCompletion, Undefined, << >>)

\* return and throw end the frame; events is what the frame's last run adds
\* to the history before it ends
Return(c, events, value) ==
  Step(c, Pop(stack[c]), Returned(value), Undefined, events \o <<Exit(Top(c).fn, TRUE)>>)

Throw(c, events, error) ==
  Step(c, Pop(stack[c]), Thrown(error), Undefined, events \o <<Exit(Top(c).fn, FALSE)>>)

-----------------------------------------------------------------------------
(* The vendor client answers the outstanding request of caller c: the      *)
(* awaiting frame resumes with any response of the request's shape         *)

Awaiting(c, fn, name) ==
  At(c, fn, name) /\ IsDefined(pending[c]) /\ pending[c][1].name = name

-----------------------------------------------------------------------------
(* The async functions of LaunchpadLedger *)

\* mutant: having got the name, the function sends the query once more and
\* returns without awaiting the response
getOpenAppName_Polling(c) ==
  \/ /\ At(c, "getOpenAppName", "start")
     /\ Request(c, "appInfo", [args |-> << >>, name |-> "appInfo"])
  \/ /\ Awaiting(c, "getOpenAppName", "appInfo")
     /\ \E response \in AppInfoResponses :
        LET received == <<Received("appInfo", response)>>
            error == handleLedgerErrors(response, Undefined)
            again == [args |-> << >>, name |-> "appInfo"]
        IN IF IsDefined(error) THEN Throw(c, received, error[1])
           ELSE Step(c, Pop(stack[c]), Returned(response.appName), Some(again),
                     received \o <<Sent(again), Exit("getOpenAppName", TRUE)>>)

\* mutant: the response's payload is used without error translation
getOpenAppName_Untranslated(c) ==
  \/ /\ At(c, "getOpenAppName", "start")
     /\ Request(c, "appInfo", [args |-> << >>, name |-> "appInfo"])
  \/ /\ Awaiting(c, "getOpenAppName", "appInfo")
     /\ \E response \in AppInfoResponses :
          Return(c, <<Received("appInfo", response)>>, response.appName)

getOpenAppName(c) ==
  \/ /\ At(c, "getOpenAppName", "start")
     /\ Request(c, "appInfo", [args |-> << >>, name |-> "appInfo"])
  \/ /\ Awaiting(c, "getOpenAppName", "appInfo")
     /\ \E response \in AppInfoResponses :
        LET received == <<Received("appInfo", response)>>
            error == handleLedgerErrors(response, Undefined)
        IN IF IsDefined(error) THEN Throw(c, received, error[1])
           ELSE Return(c, received, response.appName)

\* mutant: on the dashboard the function waits for an event that never comes
verifyCosmosAppIsOpen_Waits(c) ==
  \/ /\ At(c, "verifyCosmosAppIsOpen", "start")
     /\ Await(c, "getOpenAppName", Frame("getOpenAppName", NoLocals))
  \/ /\ Resumed(c, "verifyCosmosAppIsOpen", "getOpenAppName")
     /\ IF ret[c].kind = "throw" THEN Throw(c, << >>, ret[c].val)
        ELSE LET appName == ret[c].val
             IN IF toLowerCase(appName) = "dashboard" THEN Goto(c, "never", Top(c).v)
                ELSE IF toLowerCase(appName) # "persistence"
                       THEN Throw(c, << >>, CloseAppMessage(appName))
                ELSE Return(c, << >>, Void)

verifyCosmosAppIsOpen(c) ==
  \/ /\ At(c, "verifyCosmosAppIsOpen", "start")
     /\ Await(c, "getOpenAppName", Frame("getOpenAppName", NoLocals))
  \/ /\ Resumed(c, "verifyCosmosAppIsOpen", "getOpenAppName")
     /\ IF ret[c].kind = "throw" THEN Throw(c, << >>, ret[c].val)
        ELSE LET appName == ret[c].val
             IN IF toLowerCase(appName) = "dashboard" THEN Throw(c, << >>, OpenAppMessage)
                ELSE IF toLowerCase(appName) # "persistence"
                       THEN Throw(c, << >>, CloseAppMessage(appName))
                ELSE Return(c, << >>, Void)

\* mutant: the test-mode check runs before the error translation
getCosmosAppVersion_ModeFirst(c) ==
  \/ /\ At(c, "getCosmosAppVersion", "start")
     /\ Await(c, "verifyCosmosAppIsOpen", Frame("verifyCosmosAppIsOpen", NoLocals))
  \/ /\ Resumed(c, "getCosmosAppVersion", "verifyCosmosAppIsOpen")
     /\ IF ret[c].kind = "throw" THEN Throw(c, << >>, ret[c].val)
        ELSE Request(c, "getVersion", [args |-> << >>, name |-> "getVersion"])
  \/ /\ Awaiting(c, "getCosmosAppVersion", "getVersion")
     /\ \E response \in VersionResponses :
        LET received == <<Received("getVersion", response)>>
            error == handleLedgerErrors(response, Undefined)
            mode == verifyAppMode(response.test_mode)
        IN IF IsDefined(mode) THEN Throw(c, received, mode[1])
           ELSE IF IsDefined(error) THEN Throw(c, received, error[1])
           ELSE Return(c, received, VersionString(response.major, response.minor, response.patch))

\* mutant: the outcome of the app-open check is not looked at
getCosmosAppVersion_Unchecked(c) ==
  \/ /\ At(c, "getCosmosAppVersion", "start")
     /\ Await(c, "verifyCosmosAppIsOpen", Frame("verifyCosmosAppIsOpen", NoLocals))
  \/ /\ Resumed(c, "getCosmosAppVersion", "verifyCosmosAppIsOpen")
     /\ Request(c, "getVersion", [args |-> << >>, name |-> "getVersion"])
  \/ /\ Awaiting(c, "getCosmosAppVersion", "getVersion")
     /\ \E response \in VersionResponses :
        LET received == <<Received("getVersion", response)>>
            error == handleLedgerErrors(response, Undefined)
            mode == verifyAppMode(response.test_mode)
        IN IF IsDefined(error) THEN Throw(c, received, error[1])
           ELSE IF IsDefined(mode) THEN Throw(c, received, mode[1])
           ELSE Return(c, received, VersionString(response.major, response.minor, response.patch))

getCosmosAppVersion(c) ==
  \/ /\ At(c, "getCosmosAppVersion", "start")
     /\ Await(c, "verifyCosmosAppIsOpen", Frame("verifyCosmosAppIsOpen", NoLocals))
  \/ /\ Resumed(c, "getCosmosAppVersion", "verifyCosmosAppIsOpen")
     /\ IF ret[c].kind = "throw" THEN Throw(c, << >>, ret[c].val)
        ELSE Request(c, "getVersion", [args |-> << >>, name |-> "getVersion"])
  \/ /\ Awaiting(c, "getCosmosAppVersion", "getVersion")
     /\ \E response \in VersionResponses :
        LET received == <<Received("getVersion", response)>>
            error == handleLedgerErrors(response, Undefined)
            mode == verifyAppMode(response.test_mode)
        IN IF IsDefined(error) THEN Throw(c, received, error[1])
           ELSE IF IsDefined(mode) THEN Throw(c, received, mode[1])
           ELSE Return(c, received, VersionString(response.major, response.minor, response.patch))

verifyAppVersion(c) ==
  \/ /\ At(c, "verifyAppVersion", "start")
     /\ Await(c, "getCosmosAppVersion", Frame("getCosmosAppVersion", NoLocals))
  \/ /\ Resumed(c, "verifyAppVersion", "getCosmosAppVersion")
     /\ IF ret[c].kind = "throw" THEN Throw(c, << >>, ret[c].val)
        ELSE LET version == ret[c].val
             IN IF ~ SemverGte(version, requiredPersistenceAppVersion)
                  THEN Throw(c, << >>, OutdatedMessage)
                  ELSE Return(c, << >>, Void)

\* mutant: the gate is the version check alone
verifyDeviceIsReady_VersionOnly(c) ==
  \/ /\ At(c, "verifyDeviceIsReady", "start")
     /\ Await(c, "verifyAppVersion", Frame("verifyAppVersion", NoLocals))
  \/ /\ Resumed(c, "verifyDeviceIsReady", "verifyAppVersion")
     /\ IF ret[c].kind = "throw" THEN Throw(c, << >>, ret[c].val)
        ELSE Return(c, << >>, Void)
  \/ /\ Resumed(c, "verifyDeviceIsReady", "verifyCosmosAppIsOpen")
     /\ IF ret[c].kind = "throw" THEN Throw(c, << >>, ret[c].val)
        ELSE Return(c, << >>, Void)

\* mutant: the checks run but their promises are not awaited, so a failed
\* check does not stop the caller
verifyDeviceIsReady_Unawaited(c) ==
  \/ /\ At(c, "verifyDeviceIsReady", "start")
     /\ Await(c, "verifyAppVersion", Frame("verifyAppVersion", NoLocals))
  \/ /\ Resumed(c, "verifyDeviceIsReady", "verifyAppVersion")
     /\ Await(c, "verifyCosmosAppIsOpen", Frame("verifyCosmosAppIsOpen", NoLocals))
  \/ /\ Resumed(c, "verifyDeviceIsReady", "verifyCosmosAppIsOpen")
     /\ Return(c, << >>, Void)

\* mutant: the gate is skipped once a call of the session has succeeded
verifyDeviceIsReady_Cached(c) ==
  \/ /\ At(c, "verifyDeviceIsReady", "start")
     /\ IF succeeded THEN Return(c, << >>, Void)
        ELSE Await(c, "verifyAppVersion", Frame("verifyAppVersion", NoLocals))
  \/ /\ Resumed(c, "verifyDeviceIsReady", "verifyAppVersion")
     /\ IF ret[c].kind = "throw" THEN Throw(c, << >>, ret[c].val)
        ELSE Await(c, "verifyCosmosAppIsOpen", Frame("verifyCosmosAppIsOpen", NoLocals))
  \/ /\ Resumed(c, "verifyDeviceIsReady", "verifyCosmosAppIsOpen")
     /\ IF ret[c].kind = "throw" THEN Throw(c, << >>, ret[c].val)
        ELSE Return(c, << >>, Void)

\* mutant: the app-open check runs before the version check
verifyDeviceIsReady_AppFirst(c) ==
  \/ /\ At(c, "verifyDeviceIsReady", "start")
     /\ Await(c, "verifyCosmosAppIsOpen", Frame("verifyCosmosAppIsOpen", NoLocals))
  \/ /\ Resumed(c, "verifyDeviceIsReady", "verifyCosmosAppIsOpen")
     /\ IF ret[c].kind = "throw" THEN Throw(c, << >>, ret[c].val)
        ELSE Await(c, "verifyAppVersion", Frame("verifyAppVersion", NoLocals))
  \/ /\ Resumed(c, "verifyDeviceIsReady", "verifyAppVersion")
     /\ IF ret[c].kind = "throw" THEN Throw(c, << >>, ret[c].val)
        ELSE Return(c, << >>, Void)

\* mutant: the checks are skipped once a call of another caller has passed them
verifyDeviceIsReady_SharedGate(c) ==
  \/ /\ At(c, "verifyDeviceIsReady", "start")
     /\ IF \E d \in Callers \ { c } : \E k \in DOMAIN log[d] :
             /\ log[d][k].ev = "exit"
             /\ log[d][k].fn = "verifyDeviceIsReady"
             /\ log[d][k].ok
          THEN Return(c, << >>, Void)
          ELSE Await(c, "verifyAppVersion", Frame("verifyAppVersion", NoLocals))
  \/ /\ Resumed(c, "verifyDeviceIsReady", "verifyAppVersion")
     /\ IF ret[c].kind = "throw" THEN Throw(c, << >>, ret[c].val)
        ELSE Await(c, "verifyCosmosAppIsOpen", Frame("verifyCosmosAppIsOpen", NoLocals))
  \/ /\ Resumed(c, "verifyDeviceIsReady", "verifyCosmosAppIsOpen")
     /\ IF ret[c].kind = "throw" THEN Throw(c, << >>, ret[c].val)
        ELSE Return(c, << >>, Void)

verifyDeviceIsReady(c) ==
  \/ /\ At(c, "verifyDeviceIsReady", "start")
     /\ Await(c, "verifyAppVersion", Frame("verifyAppVersion", NoLocals))
  \/ /\ Resumed(c, "verifyDeviceIsReady", "verifyAppVersion")
     /\ IF ret[c].kind = "throw" THEN Throw(c, << >>, ret[c].val)
        ELSE Await(c, "verifyCosmosAppIsOpen", Frame("verifyCosmosAppIsOpen", NoLocals))
  \/ /\ Resumed(c, "verifyDeviceIsReady", "verifyCosmosAppIsOpen")
     /\ IF ret[c].kind = "throw" THEN Throw(c, << >>, ret[c].val)
        ELSE Return(c, << >>, Void)

\* mutant: this.hdPaths[0] || hdPath
hdPathToUse_ConfiguredFirst(hdPath) ==
  IF Len(hdPaths) > 0 THEN Some(hdPaths[1]) ELSE hdPath

\* hdPath || this.hdPaths[0]
hdPathToUse(hdPath) ==
  IF IsDefined(hdPath) THEN hdPath
  ELSE IF Len(hdPaths) > 0 THEN Some(hdPaths[1]) ELSE Undefined

getPubkey(c) ==
  \/ /\ At(c, "getPubkey", "start")
     /\ Await(c, "verifyDeviceIsReady", Frame("verifyDeviceIsReady", NoLocals))
  \/ /\ Resumed(c, "getPubkey", "verifyDeviceIsReady")
     /\ IF ret[c].kind = "throw" THEN Throw(c, << >>, ret[c].val)
        ELSE LET path == hdPathToUse(Top(c).v.hdPath)
             IN IF ~ IsDefined(path) THEN Throw(c, << >>, TypeErrorMessage)
                ELSE Request(c, "publicKey",
                             [args |-> <<unharden(path[1])>>, name |-> "publicKey"])
  \/ /\ Awaiting(c, "getPubkey", "publicKey")
     /\ \E response \in PublicKeyResponses :
        LET received == <<Received("publicKey", response)>>
            error == handleLedgerErrors(response, Undefined)
        IN IF IsDefined(error) THEN Throw(c, received, error[1])
           ELSE Return(c, received, Uint8ArrayFrom(response.compressed_pk))

\* mutant: the configured list is consumed, this.hdPaths.shift() for each key
getPubkeys_Consuming(c) ==
  \/ /\ At(c, "getPubkeys", "start")
     /\ Len(hdPaths) = 0
     /\ Return(c, << >>, Top(c).v.pubkeys)
  \/ /\ At(c, "getPubkeys", "start")
     /\ Len(hdPaths) > 0
     /\ stack' = [stack EXCEPT ![c] =
                    SetTop(stack[c], [Top(c) EXCEPT !.pc = "getPubkey"])
                      \o <<Frame("getPubkey", [hdPath |-> Some(Head(hdPaths))])>>]
     /\ ret' = [ret EXCEPT ![c] = NoCompletion]
     /\ log' = [log EXCEPT ![c] = @ \o <<Enter("getPubkey")>>]
     /\ hdPaths' = Tail(hdPaths)
     /\ UNCHANGED <<testModeAllowed, prefix, pending, succeeded, application>>
  \/ /\ Resumed(c, "getPubkeys", "getPubkey")
     /\ IF ret[c].kind = "throw" THEN Throw(c, << >>, ret[c].val)
        ELSE Goto(c, "start", [i |-> Top(c).v.i + 1,
                               pubkeys |-> Append(Top(c).v.pubkeys, ret[c].val)])

\* mutant: a path whose key request failed is skipped
getPubkeys_SkipFailed(c) ==
  \/ /\ At(c, "getPubkeys", "start")
     /\ IF Top(c).v.i > Len(hdPaths) THEN Return(c, << >>, Top(c).v.pubkeys)
        ELSE Await(c, "getPubkey", Frame("getPubkey", [hdPath |-> Some(hdPaths[Top(c).v.i])]))
  \/ /\ Resumed(c, "getPubkeys", "getPubkey")
     /\ IF ret[c].kind = "throw"
          THEN Goto(c, "start", [i |-> Top(c).v.i + 1, pubkeys |-> Top(c).v.pubkeys])
          ELSE Goto(c, "start", [i |-> Top(c).v.i + 1,
                                 pubkeys |-> Append(Top(c).v.pubkeys, ret[c].val)])

\* mutant: [await this.getPubkey(hdPath), ...pubkeys]
getPubkeys_Prepend(c) ==
  \/ /\ At(c, "getPubkeys", "start")
     /\ IF Top(c).v.i > Len(hdPaths) THEN Return(c, << >>, Top(c).v.pubkeys)
        ELSE Await(c, "getPubkey", Frame("getPubkey", [hdPath |-> Some(hdPaths[Top(c).v.i])]))
  \/ /\ Resumed(c, "getPubkeys", "getPubkey")
     /\ IF ret[c].kind = "throw" THEN Throw(c, << >>, ret[c].val)
        ELSE Goto(c, "start", [i |-> Top(c).v.i + 1,
                               pubkeys |-> <<ret[c].val>> \o Top(c).v.pubkeys])

getPubkeys(c) ==
  \/ /\ At(c, "getPubkeys", "start")
     /\ IF Top(c).v.i > Len(hdPaths) THEN Return(c, << >>, Top(c).v.pubkeys)
        ELSE Await(c, "getPubkey", Frame("getPubkey", [hdPath |-> Some(hdPaths[Top(c).v.i])]))
  \/ /\ Resumed(c, "getPubkeys", "getPubkey")
     /\ IF ret[c].kind = "throw" THEN Throw(c, << >>, ret[c].val)
        ELSE Goto(c, "start", [i |-> Top(c).v.i + 1,
                               pubkeys |-> Append(Top(c).v.pubkeys, ret[c].val)])

\* mutant: the key is fetched from the device even when one is given
getCosmosAddress_AlwaysFetch(c) ==
  \/ /\ At(c, "getCosmosAddress", "start")
     /\ Await(c, "getPubkey", Frame("getPubkey", [hdPath |-> Undefined]))
  \/ /\ Resumed(c, "getCosmosAddress", "getPubkey")
     /\ IF ret[c].kind = "throw" THEN Throw(c, << >>, ret[c].val)
        ELSE Return(c, << >>, getBech32FromPK(prefix, ret[c].val))

getCosmosAddress(c) ==
  \/ /\ At(c, "getCosmosAddress", "start")
     /\ IF IsDefined(Top(c).v.pubkey)
          THEN Return(c, << >>, getBech32FromPK(prefix, Top(c).v.pubkey[1]))
          ELSE Await(c, "getPubkey", Frame("getPubkey", [hdPath |-> Undefined]))
  \/ /\ Resumed(c, "getCosmosAddress", "getPubkey")
     /\ IF ret[c].kind = "throw" THEN Throw(c, << >>, ret[c].val)
        ELSE Return(c, << >>, getBech32FromPK(prefix, ret[c].val))

\* mutant: the response of the sign request is translated without the
\* rejection message of sign
sign_GenericRejection(c) ==
  \/ /\ At(c, "sign", "start")
     /\ Await(c, "verifyDeviceIsReady", Frame("verifyDeviceIsReady", NoLocals))
  \/ /\ Resumed(c, "sign", "verifyDeviceIsReady")
     /\ IF ret[c].kind = "throw" THEN Throw(c, << >>, ret[c].val)
        ELSE LET path == hdPathToUse(Top(c).v.hdPath)
                 text == fromUtf8(Top(c).v.message)
             IN IF ~ IsDefined(path) THEN Throw(c, << >>, TypeErrorMessage)
                ELSE IF ~ IsDefined(text) THEN Throw(c, << >>, InvalidUtf8Message)
                ELSE Request(c, "sign",
                             [args |-> <<unharden(path[1]), text[1]>>, name |-> "sign"])
  \/ /\ Awaiting(c, "sign", "sign")
     /\ \E response \in SignResponses :
        LET received == <<Received("sign", response)>>
            error == handleLedgerErrors(response, Undefined)
        IN IF IsDefined(error) THEN Throw(c, received, error[1])
           ELSE Return(c, received, fromDerToFixedLength(response.signature))

sign(c) ==
  \/ /\ At(c, "sign", "start")
     /\ Await(c, "verifyDeviceIsReady", Frame("verifyDeviceIsReady", NoLocals))
  \/ /\ Resumed(c, "sign", "verifyDeviceIsReady")
     /\ IF ret[c].kind = "throw" THEN Throw(c, << >>, ret[c].val)
        ELSE LET path == hdPathToUse(Top(c).v.hdPath)
                 text == fromUtf8(Top(c).v.message)
             IN IF ~ IsDefined(path) THEN Throw(c, << >>, TypeErrorMessage)
                ELSE IF ~ IsDefined(text) THEN Throw(c, << >>, InvalidUtf8Message)
                ELSE Request(c, "sign",
                             [args |-> <<unharden(path[1]), text[1]>>, name |-> "sign"])
  \/ /\ Awaiting(c, "sign", "sign")
     /\ \E response \in SignResponses :
        LET received == <<Received("sign", response)>>
            error == handleLedgerErrors(response, Some(SigningRejection))
        IN IF IsDefined(error) THEN Throw(c, received, error[1])
           ELSE Return(c, received, fromDerToFixedLength(response.signature))

\* mutant: the prefix of the session is passed in the place of "persistence"
verifyAddress_Prefix(c) ==
  \/ /\ At(c, "verifyAddress", "start")
     /\ Await(c, "verifyDeviceIsReady", Frame("verifyDeviceIsReady", NoLocals))
  \/ /\ Resumed(c, "verifyAddress", "verifyDeviceIsReady")
     /\ IF ret[c].kind = "throw" THEN Throw(c, << >>, ret[c].val)
        ELSE Request(c, "showAddressAndPubKey",
                     [args |-> <<unharden(Top(c).v.hdPath), prefix>>,
                      name |-> "showAddressAndPubKey"])
  \/ /\ Awaiting(c, "verifyAddress", "showAddressAndPubKey")
     /\ \E response \in AddressResponses :
        LET received == <<Received("showAddressAndPubKey", response)>>
            error == handleLedgerErrors(response, Undefined)
        IN IF IsDefined(error) THEN Throw(c, received, error[1])
           ELSE Return(c, received, response)

verifyAddress(c) ==
  \/ /\ At(c, "verifyAddress", "start")
     /\ Await(c, "verifyDeviceIsReady", Frame("verifyDeviceIsReady", NoLocals))
  \/ /\ Resumed(c, "verifyAddress", "verifyDeviceIsReady")
     /\ IF ret[c].kind = "throw" THEN Throw(c, << >>, ret[c].val)
        ELSE Request(c, "showAddressAndPubKey",
                     [args |-> <<unharden(Top(c).v.hdPath), ChainId>>,
                      name |-> "showAddressAndPubKey"])
  \/ /\ Awaiting(c, "verifyAddress", "showAddressAndPubKey")
     /\ \E response \in AddressResponses :
        LET received == <<Received("showAddressAndPubKey", response)>>
            error == handleLedgerErrors(response, Undefined)
        IN IF IsDefined(error) THEN Throw(c, received, error[1])
           ELSE Return(c, received, response)

-----------------------------------------------------------------------------
(* Construction, and the calls a user of the session makes *)

PathPool == { persistenceHdPath, makeHdPath(1, 2, 118) }
\* the configured lists: no path twice in a row
PathLists ==
  { l \in UNION { [1 .. n -> PathPool] : n \in 0 .. MaxPaths } :
      \A k \in 1 .. Len(l) - 1 : l[k] # l[k + 1] }
Messages == { <<123, 125>>, <<255>> }

Options ==
  [ hdPaths : { Undefined } \cup { Some(l) : l \in PathLists },
    prefix : { Undefined, Some("cosmos") },
    testModeAllowed : { Undefined, Some(FALSE), Some(TRUE) } ]

\* mutant: the prefix option is not read
LaunchpadLedger_DefaultPrefix(options) ==
  /\ testModeAllowed = Coalesce(options.testModeAllowed, FALSE)
  /\ hdPaths = Coalesce(options.hdPaths, <<persistenceHdPath>>)
  /\ prefix = persistenceBech32Prefix

\* the constructor: each field is the option, or its default when absent
LaunchpadLedger(options) ==
  /\ testModeAllowed = Coalesce(options.testModeAllowed, FALSE)
  /\ hdPaths = Coalesce(options.hdPaths, <<persistenceHdPath>>)
  /\ prefix = Coalesce(options.prefix, persistenceBech32Prefix)

NoCalls ==
  /\ stack = [c \in Callers |-> << >>]
  /\ ret = [c \in Callers |-> NoCompletion]
  /\ pending = [c \in Callers |-> Undefined]
  /\ log = [c \in Callers |-> << >>]
  /\ succeeded = FALSE

Init ==
  /\ \E options \in Options : LaunchpadLedger(options)
  /\ NoCalls
  /\ input = Undefined
  /\ output = Undefined

\* no call of caller c is in flight, and the outcome of its last one is taken
Idle(c) == Len(stack[c]) = 0 /\ ret[c].kind = "none"
\* the call of caller c is over: its promise has settled
Settled(c) == Len(stack[c]) = 0 /\ ret[c].kind # "none"

\* caller c starts a call of a public method
Start(c, frame) ==
  /\ Idle(c)
  /\ stack' = [stack EXCEPT ![c] = <<frame>>]
  /\ log' = [log EXCEPT ![c] = <<Enter(frame.fn)>>]
  /\ UNCHANGED <<session, application, ret, pending, succeeded>>

\* the caller's await of the settled call resumes: the outcome is taken and
\* the history of the call is dropped
Finish(c) ==
  /\ Settled(c)
  /\ ret' = [ret EXCEPT ![c] = NoCompletion]
  /\ log' = [log EXCEPT ![c] = << >>]
  /\ UNCHANGED <<session, application, stack, pending, succeeded>>

GateMethods ==
  { "getCosmosAppVersion", "getOpenAppName", "verifyAppVersion", "verifyCosmosAppIsOpen",
    "verifyDeviceIsReady" }

Call(c) ==
  \/ \E fn \in GateMethods : Start(c, Frame(fn, NoLocals))
  \/ \E hdPath \in { Undefined } \cup { Some(p) : p \in PathPool } :
       Start(c, Frame("getPubkey", [hdPath |-> hdPath]))
  \/ Start(c, Frame("getPubkeys", [i |-> 1, pubkeys |-> << >>]))
  \/ \E pubkey \in { Undefined } \cup { Some(k) : k \in PublicKeys } :
       Start(c, Frame("getCosmosAddress", [pubkey |-> pubkey]))
  \/ \E message \in Messages, hdPath \in { Undefined } \cup { Some(p) : p \in PathPool } :
       Start(c, Frame("sign", [hdPath |-> hdPath, message |-> message]))
  \/ \E hdPath \in PathPool : Start(c, Frame("verifyAddress", [hdPath |-> hdPath]))

Run(c) ==
  \/ getOpenAppName(c)
  \/ verifyCosmosAppIsOpen(c)
  \/ getCosmosAppVersion(c)
  \/ verifyAppVersion(c)
  \/ verifyDeviceIsReady(c)
  \/ getPubkey(c)
  \/ getPubkeys(c)
  \/ getCosmosAddress(c)
  \/ sign(c)
  \/ verifyAddress(c)

\* the caller awaits each call before it makes the next: one call slot
FirstCaller == CHOOSE c \in Callers : \A d \in Callers : c <= d

Next == Call(FirstCaller) \/ Run(FirstCaller) \/ Finish(FirstCaller)

Spec == Init /\ [][Next]_vars

\* Every device request receives its response, and a function that can go
\* on does: the steps of a call in flight are taken
SpecLive == Init /\ [][Next]_vars /\ WF_vars(Run(FirstCaller))

-----------------------------------------------------------------------------
(* Two callers on one session that do not await each other: whenever it   *)
(* has no call in flight the first starts getPubkey() and the second       *)
(* sign(message), and the steps of the two calls interleave in any order.  *)
(* The session is one constructed without paths and prefix.                *)

SecondCaller ==
  CHOOSE c \in Callers \ { FirstCaller } : \A d \in Callers \ { FirstCaller } : c <= d
BothCallers == { FirstCaller, SecondCaller }

InitConcurrent ==
  /\ \E options \in Options :
       /\ options.hdPaths = Undefined
       /\ options.prefix = Undefined
       /\ LaunchpadLedger(options)
  /\ NoCalls
  /\ input = Undefined
  /\ output = Undefined

CallConcurrent(c) ==
  IF c = FirstCaller
    THEN Start(c, Frame("getPubkey", [hdPath |-> Undefined]))
    ELSE Start(c, Frame("sign", [hdPath |-> Undefined, message |-> <<123, 125>>]))

RunConcurrent(c) ==
  \/ getOpenAppName(c)
  \/ verifyCosmosAppIsOpen(c)
  \/ getCosmosAppVersion(c)
  \/ verifyAppVersion(c)
  \/ verifyDeviceIsReady(c)
  \/ getPubkey(c)
  \/ sign(c)

NextConcurrent ==
  \E c \in BothCallers : CallConcurrent(c) \/ RunConcurrent(c) \/ Finish(c)

SpecConcurrent == InitConcurrent /\ [][NextConcurrent]_vars

-----------------------------------------------------------------------------
(* The session with the options it was constructed from kept in input, for *)
(* what the constructor stores                                             *)

InitConstruction ==
  /\ \E options \in Options : LaunchpadLedger(options) /\ input = Some(options)
  /\ NoCalls
  /\ output = Undefined

SpecConstruction == InitConstruction /\ [][Next]_vars

-----------------------------------------------------------------------------
(* Error translation on its own: handleLedgerErrors applied to every       *)
(* envelope a response may carry and every rejection message a caller may  *)
(* pass (none, the one sign passes, another one).                          *)

RejectionMessages == { Undefined, Some(SigningRejection), Some("Rejected on the device") }

TranslationInputs == [ rejection : RejectionMessages, response : Envelopes ]

InitTranslation ==
  /\ \E options \in Options : LaunchpadLedger(options)
  /\ NoCalls
  /\ input \in { Some(x) : x \in TranslationInputs }
  /\ output = Undefined

Translate ==
  /\ IsDefined(input)
  /\ ~ IsDefined(output)
  /\ output' = Some(handleLedgerErrors(input[1].response, input[1].rejection))
  /\ UNCHANGED <<session, stack, ret, pending, log, succeeded, input>>

SpecTranslation == InitTranslation /\ [][Translate]_vars

-----------------------------------------------------------------------------
(* unharden on its own: applied to every path of up to MaxSegments         *)
(* segments, hardened and not, the smallest and the largest among them,    *)
(* and to the paths makeHdPath builds.                                     *)

LargestIndex == 2147483647
Segments ==
  { hardened(0), hardened(44), hardened(750), hardened(LargestIndex),
    normal(0), normal(1), normal(LargestIndex) }
UnhardenInputs ==
  UNION { [1 .. n -> Segments] : n \in 0 .. MaxSegments } \cup PathPool

InitUnharden ==
  /\ \E options \in Options : LaunchpadLedger(options)
  /\ NoCalls
  /\ input \in { Some(x) : x \in UnhardenInputs }
  /\ output = Undefined

Unharden ==
  /\ IsDefined(input)
  /\ ~ IsDefined(output)
  /\ output' = Some(unharden(input[1]))
  /\ UNCHANGED <<session, stack, ret, pending, log, succeeded, input>>

SpecUnharden == InitUnharden /\ [][Unharden]_vars

-----------------------------------------------------------------------------
(* Reading the history of a call *)

DataRequests == { "publicKey", "sign", "showAddressAndPubKey" }
DataMethods == { "getPubkey", "sign", "verifyAddress" }

IsEnter(e, fn) == e.ev = "enter" /\ e.fn = fn
IsExit(e, fn) == e.ev = "exit" /\ e.fn = fn
Succeeds(e, fn) == e.ev = "exit" /\ e.fn = fn /\ e.ok
Fails(e, fn) == e.ev = "exit" /\ e.fn = fn /\ ~ e.ok
IsFailure(e) == e.ev = "exit" /\ ~ e.ok
IsSend(e, name) == e.ev = "send" /\ e.name = name
IsDataSend(e) == e.ev = "send" /\ e.name \in DataRequests
IsRecv(e, name) == e.ev = "recv" /\ e.name = name

\* the place in history h where the call of getPubkey, sign or verifyAddress
\* that sends the data request at place k was entered
CallStart(h, k) ==
  CHOOSE s \in 1 .. k :
    /\ h[s].ev = "enter" /\ h[s].fn \in DataMethods
    /\ \A t \in (s + 1) .. k : ~ (h[t].ev = "enter" /\ h[t].fn \in DataMethods)

\* the places of history h where a request of the given name is sent, and
\* where its response is received
SendsOf(h, name) == { k \in DOMAIN h : IsSend(h[k], name) }
RecvsOf(h, name) == { k \in DOMAIN h : IsRecv(h[k], name) }
\* the m-th smallest element of a set of places
Nth(S, m) == CHOOSE k \in S : Cardinality({ j \in S : j <= k }) = m

\* the call of caller c has just left fn: its completion is in ret
JustLeft(c, fn) == Len(log[c]) > 0 /\ IsExit(log[c][Len(log[c])], fn)

\* the call caller c makes or made last is a call of fn
CallOf(c, fn) == Len(log[c]) > 0 /\ IsEnter(log[c][1], fn)

-----------------------------------------------------------------------------
(* C1: in every call of getPubkey, sign and verifyAddress the data request *)
(* (publicKey, sign, showAddressAndPubKey) is sent only after the app-open *)
(* check and the version check have both succeeded within that call; no    *)
(* data request is sent in a call in which one of the checks has failed.    *)

C1_GateBeforeData ==
  \A c \in Callers : \A k \in DOMAIN log[c] :
    IsDataSend(log[c][k]) =>
      LET h == log[c]
          s == CallStart(h, k)
      IN /\ \E a \in s .. k : Succeeds(h[a], "verifyCosmosAppIsOpen")
         /\ \E a \in s .. k : Succeeds(h[a], "verifyAppVersion")
         /\ \A a \in s .. k : ~ Fails(h[a], "verifyCosmosAppIsOpen")
         /\ \A a \in s .. k : ~ Fails(h[a], "verifyAppVersion")

\* a sign request has gone out to the device
C1_Witness ==
  \E c \in Callers : \E k \in DOMAIN log[c] : IsSend(log[c][k], "sign")

-----------------------------------------------------------------------------
(* C2, as claimed: getAppVersion fails with the test-mode error whenever    *)
(* the version response reports test mode on and test mode is not allowed. *)

C2_Original ==
  \A c \in Callers :
    LET h == log[c]
        n == Len(h)
    IN (/\ JustLeft(c, "getCosmosAppVersion")
        /\ IsRecv(h[n - 1], "getVersion")
        /\ h[n - 1].payload = Some(TRUE)
        /\ ~ testModeAllowed)
       => (ret[c].kind = "throw" /\ ret[c].val = TestModeMessage)

(* C2, amended: getAppVersion fails with the test-mode error exactly when   *)
(* the version response carries no error (locked flag, error text), reports*)
(* test mode on and test mode is not allowed; a version response that       *)
(* carries an error fails with that error's translation.  With test mode   *)
(* not allowed, no call of getPubkey, sign or verifyAddress sends its data  *)
(* request after a version response of that call reported test mode.       *)

C2_TestModeRejected ==
  \A c \in Callers :
    LET h == log[c]
        n == Len(h)
    IN /\ (JustLeft(c, "getCosmosAppVersion") /\ IsRecv(h[n - 1], "getVersion"))
            => ((ret[c].kind = "throw" /\ ret[c].val = TestModeMessage)
                  <=> (/\ ~ h[n - 1].error
                       /\ h[n - 1].payload = Some(TRUE)
                       /\ ~ testModeAllowed))
       /\ (JustLeft(c, "getCosmosAppVersion") /\ ~ IsRecv(h[n - 1], "getVersion"))
            => ~ (ret[c].kind = "throw" /\ ret[c].val = TestModeMessage)
       /\ \A k \in DOMAIN h :
            (IsDataSend(h[k]) /\ ~ testModeAllowed)
              => \A a \in CallStart(h, k) .. k :
                   IsRecv(h[a], "getVersion") => h[a].payload = Some(FALSE)

\* getAppVersion has just failed with the test-mode error
C2_Witness ==
  \E c \in Callers :
    /\ CallOf(c, "getCosmosAppVersion")
    /\ JustLeft(c, "getCosmosAppVersion")
    /\ ret[c].kind = "throw"
    /\ ret[c].val = TestModeMessage

-----------------------------------------------------------------------------
(* C3: error translation of a response whose locked flag is true yields     *)
(* the device-locked failure, whatever the error text ("No errors", absent,*)
(* a text of the table, an unknown text) and whatever the rejection         *)
(* message; it yields no other failure and never success.                   *)

C3_LockedWins ==
  (IsDefined(output) /\ input[1].response.device_locked = Some(TRUE))
    => output[1] = Some(ScreensaverMessage)

\* translated: a locked response whose text is "Transaction rejected", with
\* the rejection message of sign
C3_Witness ==
  /\ IsDefined(output)
  /\ input[1].response.device_locked = Some(TRUE)
  /\ input[1].response.error_message = Some("Transaction rejected")
  /\ input[1].rejection = Some(SigningRejection)

-----------------------------------------------------------------------------
(* C4: with the locked flag false or absent, error translation maps the     *)
(* error text by exact match as the table states; "No errors" and an        *)
(* absent text give no failure, every text outside the table gives the      *)
(* unknown-device failure whose message holds the raw text.                 *)

C4_Table ==
  (IsDefined(output) /\ input[1].response.device_locked # Some(TRUE)) =>
    LET text == input[1].response.error_message
        rejectionMessage ==
          IF IsDefined(input[1].rejection) THEN input[1].rejection[1]
          ELSE "Request was rejected by the user"
        failure == output[1]
    IN /\ text = Some("U2F: Timeout")
            => failure = Some("Connection timed out. Please try again.")
       /\ text = Some("Persistence app does not seem to be open")
            => failure = Some("Persistence app is not open")
       /\ text = Some("Command not allowed") => failure = Some("Transaction rejected")
       /\ text = Some("Transaction rejected") => failure = Some(rejectionMessage)
       /\ text = Some("Unknown Status Code: 26628") => failure = Some(ScreensaverMessage)
       /\ text = Some("Instruction not supported")
            => failure = Some("Your Persistence Ledger App is not up to date. "
                                \o "Please update to version 1.0.0.")
       /\ (text = Some("No errors") \/ text = Undefined) => failure = Undefined
       /\ (IsDefined(text) /\ text[1] \notin TableTexts \cup { "No errors" })
            => failure = Some("Ledger Native Error: " \o text[1])

\* translated: an unlocked response with a text outside the table
C4_Witness ==
  /\ IsDefined(output)
  /\ input[1].response.device_locked = Some(FALSE)
  /\ input[1].response.error_message = Some("Sign/verify error")

-----------------------------------------------------------------------------
(* C5: no error is swallowed.  In every public operation, once a response   *)
(* with the locked flag or an error text other than "No errors" has been    *)
(* received, the function that sent the request fails at once (no payload   *)
(* field is used), nothing but failures follows, and the call fails.        *)

C5_NoErrorSwallowed ==
  \A c \in Callers : \A k \in DOMAIN log[c] :
    (log[c][k].ev = "recv" /\ log[c][k].error) =>
      /\ k < Len(log[c])
      /\ \A j \in (k + 1) .. Len(log[c]) : IsFailure(log[c][j])
      /\ Settled(c) => ret[c].kind = "throw"

\* getAddress without a key has failed on the error of its key response
C5_Witness ==
  \E c \in Callers :
    /\ CallOf(c, "getCosmosAddress")
    /\ Settled(c)
    /\ ret[c].kind = "throw"
    /\ \E k \in RecvsOf(log[c], "publicKey") : log[c][k].error

-----------------------------------------------------------------------------
(* C6: every failure is terminal for the call and nothing is retried: once  *)
(* a function of the call has failed, the call sends no request and starts  *)
(* no function any more.                                                    *)

C6_FailureIsTerminal ==
  \A c \in Callers : \A j, k \in DOMAIN log[c] :
    (j < k /\ IsFailure(log[c][j])) => log[c][k].ev \notin { "send", "enter" }

\* getPubkeys over two paths has failed on its first key request and is over
C6_Witness ==
  \E c \in Callers :
    /\ CallOf(c, "getPubkeys")
    /\ Len(hdPaths) = 2
    /\ Settled(c)
    /\ ret[c].kind = "throw"
    /\ Cardinality(SendsOf(log[c], "publicKey")) = 1
    /\ \E k \in RecvsOf(log[c], "publicKey") : log[c][k].error

-----------------------------------------------------------------------------
(* C7: no verified state is cached.  After calls of the session have        *)
(* succeeded, a data request of getPubkey, sign or verifyAddress is still   *)
(* preceded, within its own call, by the three queries of the gate          *)
(* (app name, version, app name), each answered without error, and by no    *)
(* failed check; a call whose gate fails sends no data request and fails.   *)

C7_GateEveryCall ==
  succeeded =>
    \A c \in Callers :
      LET h == log[c]
      IN /\ \A k \in DOMAIN h :
              IsDataSend(h[k]) =>
                LET s == CallStart(h, k)
                    S == { a \in s .. (k - 1) : h[a].ev = "send" }
                IN /\ Cardinality(S) = 3
                   /\ h[Nth(S, 1)].name = "appInfo"
                   /\ h[Nth(S, 2)].name = "getVersion"
                   /\ h[Nth(S, 3)].name = "appInfo"
                   /\ \A a \in s .. k : ~ IsFailure(h[a])
                   /\ \A a \in s .. k : h[a].ev = "recv" => ~ h[a].error
         /\ \A a \in DOMAIN h :
              Fails(h[a], "verifyDeviceIsReady") =>
                /\ \A k \in a .. Len(h) : ~ IsDataSend(h[k])
                /\ Settled(c) => ret[c].kind = "throw"

\* after a successful call, a sign call has failed at the gate on an
\* outdated version
C7_Witness ==
  /\ succeeded
  /\ \E c \in Callers :
       /\ CallOf(c, "sign")
       /\ Settled(c)
       /\ ret[c].kind = "throw"
       /\ ret[c].val = OutdatedMessage

-----------------------------------------------------------------------------
(* C8 reads the history of a call of verifyDeviceReady *)

\* at place k an app name has been compared: verifyAppIsOpen ends, having
\* got the name
AppNameCompared(h, k) ==
  k > 1 /\ IsExit(h[k], "verifyCosmosAppIsOpen") /\ Succeeds(h[k - 1], "getOpenAppName")
\* at place k the version has been queried and compared with the minimum
VersionCompared(h, k) ==
  k > 1 /\ IsExit(h[k], "verifyAppVersion") /\ Succeeds(h[k - 1], "getCosmosAppVersion")
\* place k lies within a run of verifyAppVersion
InVersionCheck(h, k) ==
  \E a \in 1 .. k :
    /\ IsEnter(h[a], "verifyAppVersion")
    /\ \A b \in a .. k : ~ IsExit(h[b], "verifyAppVersion")

(* C8, as claimed: within one call of verifyDeviceReady no app-name         *)
(* comparison is made before the version has been queried and compared     *)
(* with the required minimum.                                               *)

C8_Original ==
  \A c \in Callers :
    CallOf(c, "verifyDeviceIsReady") =>
      \A k \in DOMAIN log[c] :
        AppNameCompared(log[c], k) => \E j \in 1 .. (k - 1) : VersionCompared(log[c], j)

(* C8, amended: verifyDeviceReady runs verifyAppVersion first and           *)
(* verifyAppIsOpen second, and succeeds only if both pass.  verifyAppVersion*)
(* itself begins with an app-open check (in getAppVersion), so an app name  *)
(* is compared before the version is queried; outside verifyAppVersion no   *)
(* app name is compared before the version has been queried and compared    *)
(* with the required minimum.                                               *)

C8_VersionThenAppOpen ==
  \A c \in Callers :
    CallOf(c, "verifyDeviceIsReady") =>
      LET h == log[c]
      IN /\ Len(h) > 1 => IsEnter(h[2], "verifyAppVersion")
         /\ \A k \in DOMAIN h :
              AppNameCompared(h, k) =>
                \/ InVersionCheck(h, k)
                \/ \E j \in 1 .. (k - 1) : VersionCompared(h, j) /\ h[j].ok
         /\ (Settled(c) /\ ret[c].kind = "return") =>
              \E j, k \in DOMAIN h :
                /\ j < k
                /\ Succeeds(h[j], "verifyAppVersion")
                /\ Succeeds(h[k], "verifyCosmosAppIsOpen")

\* a call of verifyDeviceReady has succeeded
C8_Witness ==
  \E c \in Callers :
    CallOf(c, "verifyDeviceIsReady") /\ Settled(c) /\ ret[c].kind = "return"

-----------------------------------------------------------------------------
(* C9: over a configured list of N paths getPubkeys sends one publicKey     *)
(* request per path, in the order of the list, each only after the response *)
(* to the one before it has been received, and returns the N keys of the    *)
(* responses in that order; when the getPubkey of a path fails, getPubkeys  *)
(* fails, returns no keys, and sends no request for a later path.           *)

C9_GetPubkeys ==
  \A c \in Callers :
    CallOf(c, "getPubkeys") =>
      LET h == log[c]
          S == SendsOf(h, "publicKey")
          R == RecvsOf(h, "publicKey")
          N == Len(hdPaths)
      IN /\ Cardinality(S) <= N
         /\ \A m \in 1 .. Cardinality(S) : h[Nth(S, m)].args = <<unharden(hdPaths[m])>>
         /\ \A m \in 2 .. Cardinality(S) :
              Cardinality(R) >= m - 1 /\ Nth(R, m - 1) < Nth(S, m)
         /\ (Settled(c) /\ ret[c].kind = "return") =>
              /\ Cardinality(S) = N
              /\ Cardinality(R) = N
              /\ Len(ret[c].val) = N
              /\ \A m \in 1 .. N : Some(ret[c].val[m]) = h[Nth(R, m)].payload
         /\ \A a \in DOMAIN h :
              Fails(h[a], "getPubkey") =>
                /\ \A b \in a .. Len(h) : h[b].ev # "send"
                /\ Settled(c) => ret[c].kind = "throw"

\* getPubkeys over two paths has returned two different keys
C9_Witness ==
  \E c \in Callers :
    /\ CallOf(c, "getPubkeys")
    /\ Settled(c)
    /\ ret[c].kind = "return"
    /\ Len(ret[c].val) = 2
    /\ ret[c].val[1] # ret[c].val[2]

-----------------------------------------------------------------------------
(* C10: when getAppVersion has returned a version (the app-open check has   *)
(* passed, the version response carries no error, test mode is not          *)
(* rejected), verifyAppVersion fails with the outdated-app error exactly    *)
(* when major.minor.patch is less than 1.0.0, major first, then minor, then *)
(* patch, and succeeds for every version equal or greater.                  *)

C10_VersionStep(c) ==
  (/\ Resumed(c, "verifyAppVersion", "getCosmosAppVersion")
   /\ ret[c].kind = "return"
   /\ log'[c] # log[c])
  => \E n \in Versions :
       /\ VersionString(n[1], n[2], n[3]) = ret[c].val
       /\ IF VersionLess(n, RequiredVersion)
            THEN ret'[c].kind = "throw" /\ ret'[c].val = OutdatedMessage
            ELSE ret'[c].kind = "return"

C10_OutdatedIffLess == [][\A c \in Callers : C10_VersionStep(c)]_vars

\* verifyAppVersion has just failed with the outdated-app error
C10_Witness ==
  \E c \in Callers :
    /\ JustLeft(c, "verifyAppVersion")
    /\ ret[c].kind = "throw"
    /\ ret[c].val = OutdatedMessage

-----------------------------------------------------------------------------
(* C11: when the appInfo response carries no error, verifyAppIsOpen fails   *)
(* with the open-the-app error for the name "dashboard" in any casing,      *)
(* fails with the close-the-other-app error, naming the app as the device   *)
(* reported it, for any other name that is not "persistence" in some        *)
(* casing, and succeeds for "persistence" in any casing.                    *)

C11_NameStep(c) ==
  (/\ Resumed(c, "verifyCosmosAppIsOpen", "getOpenAppName")
   /\ ret[c].kind = "return"
   /\ log'[c] # log[c])
  => LET appName == ret[c].val
     IN /\ appName \in { "Dashboard", "DASHBOARD", "dashboard" } =>
             ret'[c] = Thrown("Please open the Persistence Ledger app on your Ledger device.")
        /\ appName \in { "Persistence", "PERSISTENCE", "persistence" } =>
             ret'[c].kind = "return"
        /\ appName = "SomeOtherApp" =>
             ret'[c] = Thrown("Please close SomeOtherApp and open the Persistence "
                                \o "Ledger app on your Ledger device.")
        /\ ret'[c].kind \in { "return", "throw" }
        /\ JustLeft(c, "verifyCosmosAppIsOpen")'

C11_AppNameCompared == [][\A c \in Callers : C11_NameStep(c)]_vars

\* verifyAppIsOpen has just failed on another app, which its error names
C11_Witness ==
  \E c \in Callers :
    /\ JustLeft(c, "verifyCosmosAppIsOpen")
    /\ ret[c] = Thrown(CloseAppMessage("SomeOtherApp"))

-----------------------------------------------------------------------------
(* C12: a response that is not locked and whose error text is exactly       *)
(* "Transaction rejected" fails with the rejection message of the caller:   *)
(* the response of the sign request fails sign with "Transaction signing    *)
(* request was rejected by the user"; the response of a request translated  *)
(* without a rejection message fails with "Request was rejected by the      *)
(* user".                                                                   *)

C12_RejectionMessage ==
  \A c \in Callers : \A k \in DOMAIN log[c] :
    (log[c][k].ev = "recv" /\ log[c][k].rejected) =>
      /\ k < Len(log[c])
      /\ IsFailure(log[c][k + 1])
      /\ log[c][k].name = "sign" =>
           /\ log[c][k + 1].fn = "sign"
           /\ k + 1 = Len(log[c]) =>
                ret[c] = Thrown("Transaction signing request was rejected by the user")
      /\ log[c][k].name # "sign" =>
           /\ log[c][k + 1].fn \in { "getOpenAppName", "getCosmosAppVersion", "getPubkey",
                                     "verifyAddress" }
           /\ k + 1 = Len(log[c]) => ret[c] = Thrown("Request was rejected by the user")

\* sign has just failed on a rejection of its sign request
C12_Witness ==
  \E c \in Callers :
    LET n == Len(log[c])
    IN /\ JustLeft(c, "sign")
       /\ n > 1
       /\ IsRecv(log[c][n - 1], "sign")
       /\ log[c][n - 1].rejected

-----------------------------------------------------------------------------
(* C13: getAddress without a key calls getPubkey once, with no path (so     *)
(* the gate runs and the first configured path is used), encodes the key    *)
(* of the response, and fails if that call fails; getAddress with a key     *)
(* returns the encoding of that key in one step, sending no request to the  *)
(* device, gate requests included.                                          *)

C13_History ==
  \A c \in Callers :
    CallOf(c, "getCosmosAddress") =>
      LET h == log[c]
          E == { k \in DOMAIN h : IsEnter(h[k], "getPubkey") }
          R == RecvsOf(h, "publicKey")
      IN /\ Cardinality(E) <= 1
         /\ E = { } => \A k \in DOMAIN h : h[k].ev \notin { "send", "recv" }
         /\ \A k \in SendsOf(h, "publicKey") : h[k].args = <<unharden(hdPaths[1])>>
         /\ (Settled(c) /\ E # { }) =>
              /\ ret[c].kind = "return" <=> \E k \in DOMAIN h : Succeeds(h[k], "getPubkey")
              /\ ret[c].kind = "return" =>
                   /\ Cardinality(R) = 1
                   /\ \A k \in R : Some(ret[c].val) = Some(<<"bech32", prefix, h[k].payload[1]>>)

C13_FirstStep(c) ==
  (At(c, "getCosmosAddress", "start") /\ log'[c] # log[c]) =>
    IF IsDefined(Top(c).v.pubkey)
      THEN /\ stack'[c] = << >>
           /\ pending'[c] = Undefined
           /\ ret'[c] = Returned(<<"bech32", prefix, Top(c).v.pubkey[1]>>)
           /\ log'[c] = <<Enter("getCosmosAddress"), Exit("getCosmosAddress", TRUE)>>
      ELSE /\ Len(stack'[c]) = 2
           /\ stack'[c][2] = Frame("getPubkey", [hdPath |-> Undefined])
           /\ log'[c] = <<Enter("getCosmosAddress"), Enter("getPubkey")>>

C13_GetAddress == [] C13_History /\ [][\A c \in Callers : C13_FirstStep(c)]_vars

\* getAddress with a key has returned, having sent nothing
C13_Witness ==
  \E c \in Callers :
    /\ CallOf(c, "getCosmosAddress")
    /\ Settled(c)
    /\ ret[c].kind = "return"
    /\ Len(log[c]) = 2

-----------------------------------------------------------------------------
(* C14: getAppVersion runs the app-open check and never the version check:  *)
(* it sends the app-name query, then, only after the app-open check has     *)
(* succeeded, the version query; a successful call has sent these two       *)
(* requests and no other.                                                   *)

C14_AppOpenCheckOnly ==
  \A c \in Callers :
    CallOf(c, "getCosmosAppVersion") =>
      LET h == log[c]
          S == { k \in DOMAIN h : h[k].ev = "send" }
          R == { k \in DOMAIN h : h[k].ev = "recv" }
      IN /\ \A k \in DOMAIN h :
              ~ IsEnter(h[k], "verifyAppVersion") /\ ~ IsEnter(h[k], "verifyDeviceIsReady")
         /\ Cardinality(S) <= 2
         /\ Cardinality(S) >= 1 => h[Nth(S, 1)].name = "appInfo"
         /\ Cardinality(S) = 2 =>
              /\ h[Nth(S, 2)].name = "getVersion"
              /\ \E a \in 1 .. Nth(S, 2) : Succeeds(h[a], "verifyCosmosAppIsOpen")
         /\ (\E a \in DOMAIN h : Fails(h[a], "verifyCosmosAppIsOpen")) =>
              SendsOf(h, "getVersion") = { }
         /\ (Settled(c) /\ ret[c].kind = "return") =>
              Cardinality(S) = 2 /\ Cardinality(R) = 2

\* a call of getAppVersion has returned a version
C14_Witness ==
  \E c \in Callers :
    /\ CallOf(c, "getCosmosAppVersion")
    /\ Settled(c)
    /\ ret[c] = Returned("1.2.0")

-----------------------------------------------------------------------------
(* C15: the configuration of the session is immutable after construction:   *)
(* no step of any call, successful or failing, changes the list of paths,   *)
(* the prefix or the test-mode flag; and a call leaves nothing behind: once *)
(* its outcome is taken, nothing is suspended, pending or recorded.         *)

C15_NothingLeft ==
  \A c \in Callers :
    Idle(c) => stack[c] = << >> /\ pending[c] = Undefined /\ log[c] = << >>

C15_ConfigImmutable ==
  /\ [][ /\ testModeAllowed' = testModeAllowed
         /\ hdPaths' = hdPaths
         /\ prefix' = prefix ]_vars
  /\ [] C15_NothingLeft

\* a call has succeeded and is over, on a session configured with two paths,
\* its own prefix and test mode allowed
C15_Witness ==
  /\ succeeded
  /\ \A c \in Callers : Idle(c)
  /\ Len(hdPaths) = 2
  /\ prefix = "cosmos"
  /\ testModeAllowed

-----------------------------------------------------------------------------
(* C16, as claimed: the list of paths of the session is non-empty in every  *)
(* reachable state, for every options value the constructor accepts, so a   *)
(* getPubkey or sign without a path has a first configured path to use.    *)

C16_PathsNonEmpty ==
  /\ Len(hdPaths) > 0
  /\ \A c \in Callers : ret[c] # Thrown(TypeErrorMessage)

-----------------------------------------------------------------------------
(* C17: the publicKey request of getPubkey and the sign request of sign     *)
(* carry the unhardened form of the path the caller gave, or, when the      *)
(* caller gave none, of the first configured path and of no other.          *)

C17_PathUsed ==
  \A c \in Callers :
    (IsDefined(pending[c]) /\ pending[c][1].name \in { "publicKey", "sign" }) =>
      LET given == Top(c).v.hdPath
      IN /\ Top(c).fn \in { "getPubkey", "sign" }
         /\ IsDefined(given) => pending[c][1].args[1] = unharden(given[1])
         /\ ~ IsDefined(given) =>
              /\ Len(hdPaths) > 0
              /\ pending[c][1].args[1] = unharden(hdPaths[1])
         /\ log[c][Len(log[c])] = Sent(pending[c][1])

\* sign without a path has sent its request, on a session with two paths
C17_Witness ==
  \E c \in Callers :
    /\ IsDefined(pending[c])
    /\ pending[c][1].name = "sign"
    /\ ~ IsDefined(Top(c).v.hdPath)
    /\ Len(hdPaths) = 2

-----------------------------------------------------------------------------
(* C18: unharden maps each segment on its own and keeps length and order:   *)
(* a hardened segment gives its value minus 2^31, another segment its       *)
(* value; every element of the result lies in 0 .. 2^31 - 1, and the path   *)
(* [44', 750', 0', 0, 0] gives [44, 750, 0, 0, 0].  (A number n is the      *)
(* pair <<hi, lo>> with n = hi * 2^31 + lo.)                                *)

C18_Unharden ==
  IsDefined(output) =>
    LET p == input[1]
        u == output[1]
    IN /\ Len(u) = Len(p)
       /\ \A i \in 1 .. Len(p) :
            /\ p[i][1] = 1 => u[i] = <<0, p[i][2]>>
            /\ p[i][1] = 0 => u[i] = p[i]
            /\ u[i][1] = 0
            /\ u[i][2] \in 0 .. 2147483647
       /\ p = << <<1, 44>>, <<1, 750>>, <<1, 0>>, <<0, 0>>, <<0, 0>> >>
            => u = << <<0, 44>>, <<0, 750>>, <<0, 0>>, <<0, 0>>, <<0, 0>> >>

\* unharden has been applied to the default path, which is [44', 750', 0', 0, 0]
C18_Witness ==
  /\ IsDefined(output)
  /\ input[1] = persistenceHdPath
  /\ input[1] = << <<1, 44>>, <<1, 750>>, <<1, 0>>, <<0, 0>>, <<0, 0>> >>

-----------------------------------------------------------------------------
(* C19: when the caller awaits each call before the next, at most one       *)
(* request of the session is outstanding at any time; a call in flight is   *)
(* either waiting for the response to the request it sent last, suspended   *)
(* in the function that sent it, or able to go on without the device; and   *)
(* no request is outstanding outside a call.                                *)

Outstanding(h) ==
  Cardinality({ k \in DOMAIN h : h[k].ev = "send" })
    - Cardinality({ k \in DOMAIN h : h[k].ev = "recv" })

C19_OneOutstanding ==
  /\ Cardinality({ c \in Callers : IsDefined(pending[c]) }) <= 1
  /\ \A c \in Callers :
       /\ Outstanding(log[c]) \in { 0, 1 }
       /\ IsDefined(pending[c]) <=> Outstanding(log[c]) = 1
       /\ IsDefined(pending[c]) =>
            /\ Len(stack[c]) > 0
            /\ Top(c).pc = pending[c][1].name
            /\ log[c][Len(log[c])] = Sent(pending[c][1])
       /\ (Len(stack[c]) > 0 /\ ~ IsDefined(pending[c])) => ENABLED Run(c)
       /\ Len(stack[c]) = 0 => ~ IsDefined(pending[c])

\* getPubkeys waits for the response to its second publicKey request
C19_Witness ==
  \E c \in Callers :
    /\ CallOf(c, "getPubkeys")
    /\ IsDefined(pending[c])
    /\ pending[c][1].name = "publicKey"
    /\ Cardinality(SendsOf(log[c], "publicKey")) = 2

-----------------------------------------------------------------------------
(* C20: constructing a session sends no request to the device and stores    *)
(* the options as given: each of the list of paths, the prefix and the      *)
(* test-mode flag is the option's value when the option is present, and     *)
(* the default (the one path m/44'/750'/0'/0/0, "persistence", false) when  *)
(* it is absent.                                                            *)

C20_Constructed ==
  LET options == input[1]
  IN /\ hdPaths = IF options.hdPaths = Undefined
                    THEN << << <<1, 44>>, <<1, 750>>, <<1, 0>>, <<0, 0>>, <<0, 0>> >> >>
                    ELSE options.hdPaths[1]
     /\ prefix = IF options.prefix = Undefined THEN "persistence" ELSE options.prefix[1]
     /\ testModeAllowed =
          IF options.testModeAllowed = Undefined THEN FALSE ELSE options.testModeAllowed[1]
     /\ \A c \in Callers :
          log[c] = << >> => stack[c] = << >> /\ pending[c] = Undefined

\* the session as constructed, no call made yet, from options that give a
\* prefix and the test-mode flag and no list of paths
C20_Witness ==
  /\ input = Some([hdPaths |-> Undefined, prefix |-> Some("cosmos"),
                   testModeAllowed |-> Some(TRUE)])
  /\ ~ succeeded
  /\ \A c \in Callers : Idle(c) /\ log[c] = << >>

-----------------------------------------------------------------------------
(* C21: verifyAddress sends, after the gate has passed, one                 *)
(* showAddressAndPubKey request with the unhardened path and the chain      *)
(* identifier "persistence", whatever the prefix of the session, and        *)
(* returns the response as received when it carries no error.               *)

C21_VerifyAddress ==
  \A c \in Callers :
    /\ (IsDefined(pending[c]) /\ pending[c][1].name = "showAddressAndPubKey") =>
         /\ Top(c).fn = "verifyAddress"
         /\ pending[c][1].args = <<unharden(Top(c).v.hdPath), "persistence">>
    /\ CallOf(c, "verifyAddress") =>
         LET h == log[c]
             S == SendsOf(h, "showAddressAndPubKey")
         IN /\ Cardinality(S) <= 1
            /\ \A k \in S : \E a \in 1 .. k : Succeeds(h[a], "verifyDeviceIsReady")
            /\ \A k \in RecvsOf(h, "showAddressAndPubKey") :
                 ~ h[k].error =>
                   /\ k + 1 = Len(h)
                   /\ Succeeds(h[k + 1], "verifyAddress")
                   /\ ret[c] = Returned(h[k].payload[1])
            /\ (Settled(c) /\ ret[c].kind = "return") =>
                 /\ Cardinality(S) = 1
                 /\ ret[c].val \in AddressResponses

\* verifyAddress has returned a response, on a session with another prefix
C21_Witness ==
  \E c \in Callers :
    /\ CallOf(c, "verifyAddress")
    /\ Settled(c)
    /\ ret[c].kind = "return"
    /\ prefix = "cosmos"

-----------------------------------------------------------------------------
(* C22: a successful call of getPubkey, sign or verifyAddress has sent      *)
(* four requests: app name, version, app name, data request, in this order; *)
(* a successful getPubkeys over N paths has sent 4N, this pattern N times;  *)
(* and a call whose first app-name response names the dashboard or another  *)
(* app fails with the matching error after that single request, the        *)
(* version never being queried.                                             *)

\* the names of the requests history h sends, in order
SendNames(h) ==
  LET S == { k \in DOMAIN h : h[k].ev = "send" }
  IN [m \in 1 .. Cardinality(S) |-> h[Nth(S, m)].name]

DataRequestOf(fn) ==
  CASE fn = "getPubkey" -> "publicKey"
    [] fn = "sign" -> "sign"
    [] fn = "verifyAddress" -> "showAddressAndPubKey"

WrongAppMessages ==
  { "Please open the Persistence Ledger app on your Ledger device." }
    \cup { "Please close " \o n \o " and open the Persistence Ledger app on your Ledger device." :
             n \in AppNames }

C22_RequestCount ==
  \A c \in Callers :
    LET h == log[c]
    IN /\ \A fn \in DataMethods :
            (CallOf(c, fn) /\ Settled(c) /\ ret[c].kind = "return") =>
              SendNames(h) = <<"appInfo", "getVersion", "appInfo", DataRequestOf(fn)>>
       /\ (CallOf(c, "getPubkeys") /\ Settled(c) /\ ret[c].kind = "return") =>
            /\ Len(SendNames(h)) = 4 * Len(hdPaths)
            /\ \A m \in 1 .. Len(SendNames(h)) :
                 SendNames(h)[m] =
                   CASE m % 4 = 1 -> "appInfo"
                     [] m % 4 = 2 -> "getVersion"
                     [] m % 4 = 3 -> "appInfo"
                     [] m % 4 = 0 -> "publicKey"
       /\ \A fn \in DataMethods :
            (/\ CallOf(c, fn)
             /\ Settled(c)
             /\ ret[c].kind = "throw"
             /\ ret[c].val \in WrongAppMessages
             /\ \A k \in DOMAIN h : ~ Succeeds(h[k], "verifyAppVersion"))
            => SendNames(h) = <<"appInfo">>

\* getPubkeys over two paths has returned, having sent eight requests
C22_Witness ==
  \E c \in Callers :
    /\ CallOf(c, "getPubkeys")
    /\ Settled(c)
    /\ ret[c].kind = "return"
    /\ Len(SendNames(log[c])) = 8

-----------------------------------------------------------------------------
(* C23: in a call of sign, a response to a request of the gate (app name,   *)
(* version) that is a plain rejection fails the call with "Request was      *)
(* rejected by the user"; the message of sign is thrown for the response    *)
(* of the sign request only.                                                *)

C23_GateRejection ==
  \A c \in Callers :
    CallOf(c, "sign") =>
      LET h == log[c]
      IN /\ \A k \in DOMAIN h :
              (h[k].ev = "recv" /\ h[k].rejected /\ h[k].name \in { "appInfo", "getVersion" })
                => ret[c] = Thrown("Request was rejected by the user")
         /\ ret[c] = Thrown("Transaction signing request was rejected by the user") =>
              \E k \in RecvsOf(h, "sign") : h[k].rejected

\* sign has failed on a rejection of the version query of its gate
C23_Witness ==
  \E c \in Callers :
    /\ CallOf(c, "sign")
    /\ Settled(c)
    /\ \E k \in RecvsOf(log[c], "getVersion") : log[c][k].rejected

-----------------------------------------------------------------------------
(* C24: for one version response the failures have a fixed precedence: an   *)
(* error of the response (locked flag, error text) wins over the test-mode  *)
(* error, and the test-mode error wins over the outdated-app error; so a    *)
(* version below 1.0.0 reported in test mode that is not allowed fails      *)
(* verifyAppVersion with the test-mode error.                               *)

C24_Precedence ==
  \A c \in Callers :
    LET h == log[c]
        V == RecvsOf(h, "getVersion")
    IN /\ \A k \in V :
            /\ h[k].error =>
                 /\ ret[c].kind = "throw"
                 /\ ret[c].val \notin { TestModeMessage, OutdatedMessage }
            /\ (~ h[k].error /\ h[k].payload = Some(TRUE) /\ ~ testModeAllowed) =>
                 ret[c] = Thrown(TestModeMessage)
       /\ ret[c] = Thrown(OutdatedMessage) =>
            /\ V # { }
            /\ LET k == Nth(V, Cardinality(V))
               IN /\ ~ h[k].error
                  /\ h[k].outdated
                  /\ h[k].payload = Some(FALSE) \/ testModeAllowed

\* verifyAppVersion has failed with the test-mode error on a version below
\* the required one
C24_Witness ==
  \E c \in Callers :
    LET n == Len(log[c])
    IN /\ JustLeft(c, "verifyAppVersion")
       /\ ret[c] = Thrown(TestModeMessage)
       /\ n > 2
       /\ IsRecv(log[c][n - 2], "getVersion")
       /\ log[c][n - 2].outdated

-----------------------------------------------------------------------------
(* C25: if every device request receives its response, every call of a      *)
(* public operation ends, in success or failure, and has by then made at    *)
(* most 1 round trip for getOpenAppName and verifyAppIsOpen, 2 for          *)
(* getAppVersion and verifyAppVersion, 3 for verifyDeviceReady, 4 for       *)
(* getPubkey, sign, verifyAddress and getAddress, and 4N for getPubkeys     *)
(* over N paths.                                                            *)

RoundTrips(h) == Cardinality({ k \in DOMAIN h : h[k].ev = "send" })

C25_MostRoundTrips(fn) ==
  CASE fn \in { "getOpenAppName", "verifyCosmosAppIsOpen" } -> 1
    [] fn \in { "getCosmosAppVersion", "verifyAppVersion" } -> 2
    [] fn = "verifyDeviceIsReady" -> 3
    [] fn \in { "getPubkey", "sign", "verifyAddress", "getCosmosAddress" } -> 4
    [] fn = "getPubkeys" -> 4 * Len(hdPaths)

C25_RoundTrips ==
  \A c \in Callers :
    Len(log[c]) > 0 => RoundTrips(log[c]) <= C25_MostRoundTrips(log[c][1].fn)

C25_Terminates ==
  /\ [] C25_RoundTrips
  /\ \A c \in Callers : (Len(stack[c]) > 0) ~> Settled(c)

\* getAddress without a key has ended after four round trips
C25_Witness ==
  \E c \in Callers :
    /\ CallOf(c, "getCosmosAddress")
    /\ Settled(c)
    /\ RoundTrips(log[c]) = 4

-----------------------------------------------------------------------------
(* C26: two calls started on one session without awaiting the first are    *)
(* not serialised, and their device requests may interleave; the calls     *)
(* share no mutable state: in every interleaving the data request of a     *)
(* call comes after that same call's own successful app-open and version   *)
(* checks, and a step of one call, its failure included, changes nothing   *)
(* of the other call and nothing of the session.                           *)

\* what belongs to the call of caller c
CallState(c) == <<stack[c], ret[c], pending[c], log[c]>>

C26_OwnChecks ==
  \A c \in Callers : \A k \in DOMAIN log[c] :
    IsDataSend(log[c][k]) =>
      /\ \E a \in 1 .. k : Succeeds(log[c][a], "verifyAppVersion")
      /\ \E a \in 1 .. k : Succeeds(log[c][a], "verifyCosmosAppIsOpen")
      /\ \E a \in 1 .. k : Succeeds(log[c][a], "verifyDeviceIsReady")
      /\ \A a \in 1 .. k : ~ IsFailure(log[c][a])

C26_OneCallPerStep ==
  /\ UNCHANGED session
  /\ \A c \in Callers :
       (stack'[c] # stack[c] \/ log'[c] # log[c]) =>
         \A d \in Callers \ { c } : UNCHANGED CallState(d)

C26_Interleaving == [] C26_OwnChecks /\ [][C26_OneCallPerStep]_vars

\* the key request of one caller and an app query of the other are
\* outstanding at once
C26_Witness ==
  \E c \in Callers : \E d \in Callers \ { c } :
    /\ IsDefined(pending[c]) /\ pending[c][1].name = "publicKey"
    /\ IsDefined(pending[d]) /\ pending[d][1].name = "appInfo"

====
